---- MODULE Spec2Model ----
(***************************************************************************)
(* Model of sndatasets/loaders.py: the four loaders load_kowalski08,       *)
(* load_hamuy96, load_krisciunas and load_csp, each an ETL pipeline over   *)
(* remote tables (download, parse, pivot, sentinel filter, unit            *)
(* conversion, one light-curve table per supernova).                       *)
(*                                                                         *)
(* Units.  Floating point values are kept as scaled integers:              *)
(*   time        half days            (JD 2400000.5 is 4800001)            *)
(*   magnitudes  half magnitudes      (zp 29.0 is 58; sentinel -100. is    *)
(*               -200; sentinel 0. is 0)                                   *)
(*   flux        [m, e10], the number m * 10^e10 * 10^-3                   *)
(*   angles      1/100 arcsecond      (1 degree is 360000)                 *)
(*   redshift    1e-6                                                      *)
(* A table is a sequence of rows; a row is a function from column names    *)
(* to values.  A masked cell holds MASKED, as numpy.ma.masked.             *)
(***************************************************************************)
EXTENDS Integers, Sequences, FiniteSets, TLC

VARIABLES
    remote,     \* the archive: [cat, obs], what the remote files hold
    loader,     \* the loader called last (running unless pc says it ended)
    pc,         \* position of the running loader
    fetched,    \* files obtained by download_file in this call, in order
    meta,       \* local: parsed metadata table (table1)
    data,       \* local: the photometry table being transformed
    wide,       \* the table as handed to pivot_table by this call
    sne,        \* local: the mapping being filled, name -> table
    order,      \* insertion order of sne (OrderedDict)
    i,          \* local: loop index over the supernovae
    sndata,     \* local: rows of the supernova of the current iteration
    zp,         \* local: zeropoint column of the current iteration
    ret,        \* what the last finished call gave its caller
    calls,      \* number of loader calls started
    first       \* first value returned by each loader (for comparing calls)

vars == <<remote, loader, pc, fetched, meta, data, wide, sne, order, i,
          sndata, zp, ret, calls, first>>

(***************************************************************************)
(* Bounds of the model.                                                    *)
(***************************************************************************)
MaxRows == 2
MaxSessionRows == 1
MaxCalls == 3

(***************************************************************************)
(* Generic helpers.                                                        *)
(***************************************************************************)
MASKED == -32768

RECURSIVE Flatten(_)
Flatten(ss) == IF ss = <<>> THEN <<>> ELSE Head(ss) \o Flatten(Tail(ss))

SeqMap(s, F(_)) == [k \in 1..Len(s) |-> F(s[k])]

Range(s) == {s[k] : k \in 1..Len(s)}

Restrict(f, S) == [x \in S |-> f[x]]

\* floor of the square root
Isqrt(n) == CHOOSE r \in 0..n : r * r <= n /\ (r + 1) * (r + 1) > n

(***************************************************************************)
(* utils: unit conversions.                                                *)
(***************************************************************************)
MJD_OFFSET == 4800001

jd_to_mjd(t) == t - MJD_OFFSET

\* 1000 * 10^(k/5), k = 0..4
Pow10Fifth == <<1000, 1585, 2512, 3981, 6310>>

\* flux = 10^(-0.4 (mag - zp)); fluxerr = flux * ln(10)/2.5 * magerr
\* (ln(10)/2.5 per half magnitude is 0.4605)
mag_to_flux(mag, magerr, zeropoint) ==
    LET d == zeropoint - mag
        m == Pow10Fifth[(d % 5) + 1]
    IN  [flux    |-> [m |-> m, e10 |-> d \div 5],
         fluxerr |-> [m |-> ((m * 4605) \div 10000) * magerr, e10 |-> d \div 5]]

Positive(x) == x.m > 0

\* hours, minutes, seconds -> degrees
hms_to_deg(h, m, s) == 15 * (360000 * h + 6000 * m + s)

\* sign, degrees, arcminutes, arcseconds -> degrees
sdms_to_deg(sign, d, m, s) ==
    (IF sign = "-" THEN -1 ELSE 1) * (360000 * d + 6000 * m + s)

\* 'hh:mm:ss.ss' (kept as <<hh, mm, ssss>>) -> degrees
sxhr_to_deg(x) == hms_to_deg(x[1], x[2], x[3])

\* '+dd:mm:ss.s' (kept as <<sign, dd, mm, ssss>>) -> degrees
sx_to_deg(x) == sdms_to_deg(x[1], x[2], x[3], x[4])

(***************************************************************************)
(* utils.pivot_table.  A column format '{}mag' is kept as its two halves   *)
(* <<"", "mag">>; format(v) puts v between them.                           *)
(***************************************************************************)
Format(colfmt, v) == colfmt[1] \o v \o colfmt[2]

PivotColumns(colfmts, values) ==
    {Format(colfmts[j], values[k]) : j \in 1..Len(colfmts), k \in 1..Len(values)}

\* Variant: every row is labelled with the first value.
PivotRow_first(row, values_colname, colfmts, values, value) ==
    [c \in {Format(colfmts[j], "") : j \in 1..Len(colfmts)} |->
        LET n == CHOOSE j \in 1..Len(colfmts) : Format(colfmts[j], "") = c
        IN  row[Format(colfmts[n], value)]] @@
    (values_colname :> values[1]) @@
    [c \in DOMAIN row \ PivotColumns(colfmts, values) |-> row[c]]

PivotRow(row, values_colname, colfmts, values, value) ==
    LET kept == DOMAIN row \ PivotColumns(colfmts, values)
        news == [c \in {Format(colfmts[j], "") : j \in 1..Len(colfmts)} |->
                   LET n == CHOOSE j \in 1..Len(colfmts) : Format(colfmts[j], "") = c
                   IN  row[Format(colfmts[n], value)]]
    IN  news @@ (values_colname :> value) @@ Restrict(row, kept)

\* One output row per (row, value) pair, row by row; a pair whose value cell
\* is masked is dropped.
pivot_table(tbl, values_colname, colfmts, values) ==
    LET Present(row, v) == row[Format(colfmts[1], v)] # MASKED
        OfRow(row) ==
            SeqMap(SelectSeq(values, LAMBDA v : Present(row, v)),
                   LAMBDA v : PivotRow(row, values_colname, colfmts, values, v))
    IN  Flatten(SeqMap(tbl, OfRow))

\* The string columns of the tables; they are never masked.
StrCols == {"SN", "Tel", "band", "filter", "---", "f_JD"}

IsMasked(row, c) == c \notin StrCols /\ row[c] = MASKED

\* Table.filled(fill): masked cells take the fill value
filled(tbl, fill) ==
    SeqMap(tbl, LAMBDA row : [c \in DOMAIN row |->
                                IF IsMasked(row, c) THEN fill ELSE row[c]])

\* Table(columns, names=(time, band, flux, fluxerr, zp, zpsys), meta=snmeta):
\* columns of one length give a table, anything else raises ValueError.
ColumnsAgree(cols) == \A c \in DOMAIN cols : Len(cols[c]) = Len(cols.time)

Table(cols, snmeta) ==
    [rows |-> [k \in 1..Len(cols.time) |-> [c \in DOMAIN cols |-> cols[c][k]]],
     meta |-> snmeta]

\* mag_to_flux on columns: numpy broadcasts a column of length 1 and raises
\* on any other pair of unequal lengths.
Broadcastable(a, b) == Len(a) = Len(b) \/ Len(a) = 1 \/ Len(b) = 1

BroadcastLen(a, b) ==
    IF Len(a) = Len(b) THEN Len(a) ELSE IF Len(a) = 1 THEN Len(b) ELSE Len(a)

At(col, n) == IF Len(col) = 1 THEN col[1] ELSE col[n]

mag_to_flux_cols(mag, magerr, zpcol) ==
    [k \in 1..BroadcastLen(mag, zpcol) |->
        mag_to_flux(At(mag, k), At(magerr, k), At(zpcol, k))]

(***************************************************************************)
(* The archive.  remote.cat lists the supernovae of the metadata table,    *)
(* remote.obs the observation rows of the photometry table; every dataset  *)
(* publishes them in its own layout (the readers below).                   *)
(***************************************************************************)
SNIds == {1, 2}

\* JD of MJD 53747.5, 53748.0 and 53761.5
JDs == {4907496, 4907497, 4907524}

\* Which cells of an observation row are filled in.
Patterns == {1, 2}

ObsRows == [sn : SNIds, jd : JDs, pat : Patterns]

ObsTables == UNION {[1..n -> ObsRows] : n \in 0..MaxRows}

Cats == {<<>>, <<1>>, <<1, 2>>, <<2, 1>>}

Archives == [cat : Cats, obs : ObsTables]

\* band -> <<magnitude, error>> of the cells a pattern fills in; the cells
\* of every other band are masked.
Cells ==
    <<[B |-> <<36, 1>>, V |-> <<35, 1>>],
      [B |-> <<37, MASKED>>]>>

\* CSP: optical rows, and infrared rows
CspCells ==
    <<[B |-> <<36, 1>>, V |-> <<35, 1>>],
      [Y |-> <<30, 1>>]>>

CellOf(cells, pat, b, k) ==
    IF b \in DOMAIN cells[pat] THEN cells[pat][b][k] ELSE MASKED

\* The catalogue entry of a supernova: z, RA (h, m, s), Dec (sign, d, m, s).
Catalogue ==
    <<[z |-> 14443, RAh |-> 8, RAm |-> 27, RAs |-> 4203,
       sign |-> "+", DEd |-> 21, DEm |-> 29, DEs |-> 1480],
      [z |-> 7609, RAh |-> 12, RAm |-> 31, RAs |-> 5660,
       sign |-> "-", DEd |-> 14, DEm |-> 25, DEs |-> 3500]>>

\* The names under which a dataset publishes supernovae 1 and 2, and the
\* telescope of their observations.
SNName ==
    [kowalski08 |-> <<"1999aa", "1999ac">>,
     hamuy96    |-> <<"1990O", "1990T">>,
     krisciunas |-> <<"1999aa", "1999cl">>,
     csp        |-> <<"2004ef", "2005el">>]

TelName ==
    [kowalski08 |-> <<"CTIO 0.9m", "FLWO 1.2m">>,
     csp        |-> <<"SWO", "DUP">>]

\* ascii.read(table1, format='cds'): one row per supernova.
ReadTable1(ds) ==
    SeqMap(remote.cat, LAMBDA n :
        [SN   |-> SNName[ds][n],  z   |-> Catalogue[n].z,
         RAh  |-> Catalogue[n].RAh, RAm |-> Catalogue[n].RAm,
         RAs  |-> Catalogue[n].RAs, DE_ |-> Catalogue[n].sign,
         DEd  |-> Catalogue[n].DEd, DEm |-> Catalogue[n].DEm,
         DEs  |-> Catalogue[n].DEs])

\* The magnitude and error columns of a wide table, one pair per band.
MagColumns(o, cells, colfmts, bands) ==
    [c \in PivotColumns(colfmts, bands) |->
        LET b == CHOOSE b \in Range(bands) :
                    \E j \in 1..Len(colfmts) : Format(colfmts[j], b) = c
        IN  IF c = Format(colfmts[1], b) THEN CellOf(cells, o.pat, b, 1)
            ELSE CellOf(cells, o.pat, b, 2)]

(***************************************************************************)
(* Calls.  A loader is called with no arguments.  A call ends by returning *)
(* its mapping or by an exception that reaches the caller.  The local      *)
(* variables keep what the last call left in them until a statement of the *)
(* running call assigns them.                                              *)
(***************************************************************************)
Loaders == {"load_kowalski08", "load_hamuy96", "load_krisciunas", "load_csp"}

NotCalled == [kind |-> "none"]

\* The result r reaches the caller of the running loader.
Finish(r) ==
    /\ ret' = r
    /\ first' = IF first[loader] = NotCalled THEN [first EXCEPT ![loader] = r]
                ELSE first
    /\ loader' = loader

\* Variant: the exception is caught and the mapping filled so far returned.
Raises_caught(what) ==
    [kind |-> "mapping", sne |-> sne, order |-> order, what |-> what, at |-> pc]

\* An exception raised at the current step: nothing catches it.
Raises(what) == [kind |-> "raised", what |-> what, at |-> pc]

\* return sne
Returns == [kind |-> "mapping", sne |-> sne, order |-> order]

\* sne = OrderedDict() / sne = {}
NewDict == <<>>

\* sne[name] = tbl
SetItem(d, name, tbl) == (name :> tbl) @@ d

Inserted(ord, name) == IF name \in Range(ord) THEN ord ELSE Append(ord, name)

\* Variant: the loop goes on from where the last call left its index.
RangeStart_kept == i

\* for i in range(...): the loop starts at the first element
RangeStart == 0

Ended == pc \in {"idle", "done", "raised"}

Call(L) ==
    /\ Ended
    /\ calls < MaxCalls
    /\ loader' = L /\ pc' = "download" /\ calls' = calls + 1
    /\ ret' = NotCalled
    /\ UNCHANGED <<remote, fetched, meta, data, wide, sne, order, i, sndata,
                   zp, first>>

\* The files a loader asks download_file for, in order.
Files ==
    [load_kowalski08 |-> <<"ReadMe", "table1.dat", "table10.dat">>,
     load_hamuy96    |-> <<"ReadMe", "table4.dat">>,
     load_krisciunas |-> <<"positions.csv">>,
     load_csp        |-> <<"ReadMe", "table1.dat", "table4.dat", "table5.dat">>]

Download ==
    /\ loader \in Loaders \ {"load_krisciunas"} /\ pc = "download"
    /\ fetched' = Files[loader]
    /\ pc' = "parse"
    /\ UNCHANGED <<remote, loader, meta, data, wide, sne, order, i, sndata, zp,
                   ret, calls, first>>

\* download_file raises on the n-th file: the files before it were fetched,
\* the one that failed is not asked for again.
DownloadFails ==
    /\ loader \in Loaders /\ pc = "download"
    /\ \E n \in 1..Len(Files[loader]) :
          /\ fetched' = SubSeq(Files[loader], 1, n)
          /\ Finish(Raises("download"))
    /\ pc' = "raised"
    /\ UNCHANGED <<remote, meta, data, wide, sne, order, i, sndata, zp, calls>>

\* ascii.read raises on a malformed file, a column lookup on a missing
\* column.
StepFails ==
    /\ loader \in Loaders /\ pc \in {"parse", "pivot"}
    /\ Finish(Raises(IF pc = "parse" THEN "parse" ELSE "column"))
    /\ pc' = "raised"
    /\ UNCHANGED <<remote, fetched, meta, data, wide, sne, order, i, sndata, zp,
                   calls>>

(***************************************************************************)
(* load_kowalski08                                                         *)
(***************************************************************************)
KowColfmts == <<(<<"", "mag">>), (<<"e_", "mag">>)>>
KowBands == <<"B", "V", "R", "I">>

\* ascii.read(table10, format='cds')
ReadTable10 ==
    SeqMap(remote.obs, LAMBDA o :
        MagColumns(o, Cells, KowColfmts, KowBands) @@
        [SN  |-> SNName.kowalski08[o.sn], JD |-> o.jd,
         Tel |-> TelName.kowalski08[o.sn]])

ReplaceSpace ==
    [t \in Range(TelName.kowalski08) |->
        IF t = "CTIO 0.9m" THEN "CTIO_0.9m" ELSE "FLWO_1.2m"]

\* ra, dec of the rows of a parsed metadata table
RaOf(m) == SeqMap(m, LAMBDA r : hms_to_deg(r.RAh, r.RAm, r.RAs))
DecOf(m) == SeqMap(m, LAMBDA r : sdms_to_deg(r.DE_, r.DEd, r.DEm, r.DEs))

Column(tbl, c) == SeqMap(tbl, LAMBDA r : r[c])

\* data[data['SN'] == name]
RowsOf(tbl, name) == SelectSeq(tbl, LAMBDA r : r.SN = name)

\* Variant: no row is eliminated.
DropSentinel_none(tbl, sentinel) == tbl

\* data[data['mag'] != sentinel]
DropSentinel(tbl, sentinel) == SelectSeq(tbl, LAMBDA r : r.mag # sentinel)

ConstColumn(n, v) == [k \in 1..n |-> v]

KowParse ==
    /\ loader = "load_kowalski08" /\ pc = "parse"
    /\ meta' = ReadTable1("kowalski08")
    /\ data' = filled(ReadTable10, 0)
    /\ pc' = "pivot"
    /\ UNCHANGED <<remote, loader, fetched, wide, sne, order, i, sndata, zp,
                   ret, calls, first>>

KowJoinBand(tbl) ==
    SeqMap(tbl, LAMBDA r :
        [c \in DOMAIN r \ {"Tel"} |->
            IF c = "band" THEN ReplaceSpace[r.Tel] \o "_" \o r.band ELSE r[c]])

KowPivot ==
    /\ loader = "load_kowalski08" /\ pc = "pivot"
    /\ wide' = data
    /\ data' = KowJoinBand(DropSentinel(
                   pivot_table(data, "band", KowColfmts, KowBands), 0))
    /\ sne' = NewDict /\ order' = <<>> /\ i' = RangeStart
    /\ pc' = "loop"
    /\ UNCHANGED <<remote, loader, fetched, meta, sndata, zp, ret, calls, first>>

KowIter ==
    /\ loader = "load_kowalski08" /\ pc = "loop" /\ i < Len(meta)
    /\ LET name == meta[i + 1].SN
           rows == RowsOf(data, name)
           snmeta == [name |-> name, dataset |-> "kowalski08",
                      z_helio |-> meta[i + 1].z,
                      ra |-> RaOf(meta)[i + 1], dec |-> DecOf(meta)[i + 1]]
           zpcol == ConstColumn(Len(rows), 58)
           fx == mag_to_flux_cols(Column(rows, "mag"), Column(rows, "e_mag"), zpcol)
           cols == [time    |-> SeqMap(Column(rows, "JD"), jd_to_mjd),
                    band    |-> Column(rows, "band"),
                    flux    |-> SeqMap(fx, LAMBDA f : f.flux),
                    fluxerr |-> SeqMap(fx, LAMBDA f : f.fluxerr),
                    zp      |-> zpcol,
                    zpsys   |-> ConstColumn(Len(rows), "vega")]
       IN  /\ sndata' = rows /\ zp' = zpcol
           /\ sne' = SetItem(sne, name, Table(cols, snmeta))
           /\ order' = Inserted(order, name)
    /\ i' = i + 1
    /\ pc' = "loop"
    /\ UNCHANGED <<remote, loader, fetched, meta, data, wide, ret, calls, first>>

(***************************************************************************)
(* load_hamuy96                                                            *)
(***************************************************************************)
\* meta: name -> (ra 'hh:mm:ss.ss', dec '+dd:mm:ss.s', z_helio), and its keys
\* in the order of the dict literal.
HamuyNames ==
    <<"1990O", "1990T", "1990Y", "1990af", "1991S", "1991U",
      "1991ag", "1992J", "1992K", "1992P", "1992ae", "1992ag",
      "1992al", "1992aq", "1992au", "1992bc", "1992bg", "1992bh",
      "1992bk", "1992bl", "1992bo", "1992bp", "1992br", "1992bs",
      "1993B", "1993H", "1993M", "1993O", "1993ag", "1993ah">>

HamuyMeta ==
    ("1990O" :> <<(<<17, 15, 3592>>), (<<"+", 16, 19, 2580>>), 30300>>) @@
    ("1990T" :> <<(<<19, 59, 228>>), (<<"-", 56, 15, 3000>>), 40400>>) @@
    ("1990Y" :> <<(<<3, 37, 2264>>), (<<"-", 33, 2, 4010>>), 39100>>) @@
    ("1990af" :> <<(<<21, 34, 5812>>), (<<"-", 62, 44, 740>>), 50600>>) @@
    ("1991S" :> <<(<<10, 29, 2779>>), (<<"+", 22, 0, 4640>>), 54600>>) @@
    ("1991U" :> <<(<<13, 23, 2220>>), (<<"-", 26, 6, 2870>>), 31700>>) @@
    ("1991ag" :> <<(<<20, 0, 865>>), (<<"-", 55, 22, 340>>), 14100>>) @@
    ("1992J" :> <<(<<10, 9, 30>>), (<<"-", 26, 38, 2440>>), 44600>>) @@
    ("1992K" :> <<(<<13, 10, 420>>), (<<"-", 46, 26, 3030>>), 10300>>) @@
    ("1992P" :> <<(<<12, 42, 4895>>), (<<"+", 10, 21, 3750>>), 25200>>) @@
    ("1992ae" :> <<(<<21, 28, 1766>>), (<<"-", 61, 33, 0>>), 75200>>) @@
    ("1992ag" :> <<(<<13, 24, 1012>>), (<<"-", 23, 52, 3930>>), 24900>>) @@
    ("1992al" :> <<(<<20, 45, 5645>>), (<<"-", 51, 23, 4000>>), 14600>>) @@
    ("1992aq" :> <<(<<23, 4, 3476>>), (<<"-", 37, 20, 4210>>), 101800>>) @@
    ("1992au" :> <<(<<0, 10, 4027>>), (<<"-", 49, 56, 4330>>), 61400>>) @@
    ("1992bc" :> <<(<<3, 5, 1728>>), (<<"-", 39, 33, 3970>>), 20200>>) @@
    ("1992bg" :> <<(<<7, 41, 5653>>), (<<"-", 62, 31, 880>>), 35200>>) @@
    ("1992bh" :> <<(<<4, 59, 2755>>), (<<"-", 58, 49, 4420>>), 45000>>) @@
    ("1992bk" :> <<(<<3, 43, 190>>), (<<"-", 53, 37, 5680>>), 58100>>) @@
    ("1992bl" :> <<(<<23, 15, 1325>>), (<<"-", 44, 44, 3450>>), 43700>>) @@
    ("1992bo" :> <<(<<1, 21, 5844>>), (<<"-", 34, 12, 4350>>), 18900>>) @@
    ("1992bp" :> <<(<<3, 36, 3795>>), (<<"-", 18, 21, 1370>>), 79300>>) @@
    ("1992br" :> <<(<<1, 45, 4483>>), (<<"-", 56, 5, 5790>>), 88200>>) @@
    ("1992bs" :> <<(<<3, 29, 2720>>), (<<"-", 37, 16, 1890>>), 63700>>) @@
    ("1993B" :> <<(<<10, 34, 5138>>), (<<"-", 34, 26, 3000>>), 69600>>) @@
    ("1993H" :> <<(<<13, 52, 5034>>), (<<"-", 30, 42, 2330>>), 23900>>) @@
    ("1993M" :> <<(<<19, 13, 153>>), (<<"-", 64, 17, 2830>>), 90000>>) @@
    ("1993O" :> <<(<<13, 31, 787>>), (<<"-", 33, 12, 5050>>), 51000>>) @@
    ("1993ag" :> <<(<<10, 3, 3500>>), (<<"-", 35, 27, 4760>>), 49000>>) @@
    ("1993ah" :> <<(<<23, 51, 5027>>), (<<"-", 27, 57, 4700>>), 29700>>)

HamuyColfmts == <<(<<"", "mag">>), (<<"e_", "mag">>)>>
HamuyBands == <<"B", "V", "R", "I">>

\* np.char.lower on the band letters
Lower ==
    [u |-> "u", g |-> "g", r |-> "r", i |-> "i", B |-> "b", V |-> "v",
     R |-> "r", I |-> "i", Y |-> "y", J |-> "j", H |-> "h", K |-> "k",
     S |-> "s", D |-> "d"]

\* ascii.read(table4, format='cds')
ReadHamuyTable4 ==
    SeqMap(remote.obs, LAMBDA o :
        MagColumns(o, Cells, HamuyColfmts, HamuyBands) @@
        [SN |-> SNName.hamuy96[o.sn], HJD |-> o.jd])

HamuyParse ==
    /\ loader = "load_hamuy96" /\ pc = "parse"
    /\ data' = filled(ReadHamuyTable4, 0)
    /\ pc' = "pivot"
    /\ UNCHANGED <<remote, loader, fetched, meta, wide, sne, order, i, sndata,
                   zp, ret, calls, first>>

HamuyPivot ==
    /\ loader = "load_hamuy96" /\ pc = "pivot"
    /\ wide' = data
    /\ data' = DropSentinel(
                   pivot_table(data, "band", HamuyColfmts, HamuyBands), 0)
    /\ sne' = NewDict /\ order' = <<>> /\ i' = RangeStart
    /\ pc' = "loop"
    /\ UNCHANGED <<remote, loader, fetched, meta, sndata, zp, ret, calls, first>>

HamuyIter ==
    /\ loader = "load_hamuy96" /\ pc = "loop" /\ i < Len(HamuyNames)
    /\ LET name == HamuyNames[i + 1]
           snmeta == [name |-> name, dataset |-> "hamuy96",
                      z_helio |-> HamuyMeta[name][3],
                      ra |-> sxhr_to_deg(HamuyMeta[name][1]),
                      dec |-> sx_to_deg(HamuyMeta[name][2])]
           rows == RowsOf(data, name)
           zpcol == ConstColumn(Len(rows), 58)
           fx == mag_to_flux_cols(Column(rows, "mag"), Column(rows, "e_mag"), zpcol)
           cols == [time    |-> SeqMap(Column(rows, "HJD"), jd_to_mjd),
                    band    |-> SeqMap(Column(rows, "band"),
                                       LAMBDA b : "bessell" \o Lower[b]),
                    flux    |-> SeqMap(fx, LAMBDA f : f.flux),
                    fluxerr |-> SeqMap(fx, LAMBDA f : f.fluxerr),
                    zp      |-> zpcol,
                    zpsys   |-> ConstColumn(Len(rows), "vega")]
       IN  /\ sndata' = rows /\ zp' = zpcol
           /\ sne' = SetItem(sne, name, Table(cols, snmeta))
           /\ order' = Inserted(order, name)
    /\ i' = i + 1
    /\ pc' = "loop"
    /\ UNCHANGED <<remote, loader, fetched, meta, data, wide, ret, calls, first>>

(***************************************************************************)
(* load_krisciunas                                                         *)
(***************************************************************************)
z_helio ==
    ("1999aa" :> 14443) @@ ("1999cc" :> 31328) @@ ("1999cl" :> 7609) @@
    ("1999cp" :> 9480) @@ ("1999da" :> 12695) @@ ("1999dk" :> 14960) @@
    ("1999ek" :> 17522) @@ ("1999gp" :> 26745) @@ ("2000bh" :> 22809) @@
    ("2000bk" :> 25444) @@ ("2000ca" :> 23616) @@ ("2000ce" :> 16305) @@
    ("2000cf" :> 36425) @@ ("2001ba" :> 29557) @@ ("2001bt" :> 14637) @@
    ("2001cn" :> 15154) @@ ("2001cz" :> 15489) @@ ("2001el" :> 3896) @@
    ("2002bo" :> 4240)

\* What positions.csv holds for the three supernovae (ra, dec in degrees).
Positions ==
    ("1999aa" :> [ra |-> 45631500, dec |-> 7735480]) @@
    ("1999cl" :> [ra |-> 67674000, dec |-> 5198400]) @@
    ("1999cp" :> [ra |-> 76593000, dec |-> -199800])

KrisFiles ==
    <<(<<"1999aa", "table2.txt">>), (<<"1999cl", "table4.txt">>),
      (<<"1999cp", "table6.txt">>)>>

KrisColfmts == <<(<<"", "mag">>), (<<"", "mag_err">>)>>
KrisBands == <<"b", "v", "r", "i">>

JD_2451000 == 4902000

\* The cells of the colour columns a pattern fills in; the others are masked.
KrisCells ==
    <<("v" :> 35) @@ ("v_err" :> 1) @@ ("b-v" :> 1) @@ ("b-v_err" :> 1),
      ("v" :> 35) @@ ("v_err" :> 1) @@ ("b-v" :> 2)>>

KrisColumns ==
    {"v", "v_err", "b-v", "b-v_err", "v-r", "v-r_err", "v-i", "v-i_err"}

\* ascii.read(f, format='fixed_width_no_header', names=...): the file of one
\* supernova; times are offsets from JD 2451000.0.
ReadKrisFile(name) ==
    SeqMap(SelectSeq(remote.obs, LAMBDA o : SNName.krisciunas[o.sn] = name),
           LAMBDA o :
             [c \in KrisColumns |->
                IF c \in DOMAIN KrisCells[o.pat] THEN KrisCells[o.pat][c]
                ELSE MASKED] @@
             [time |-> o.jd - JD_2451000])

\* Arithmetic on masked columns: a masked operand masks the result.
MAdd(a, b) == IF a = MASKED \/ b = MASKED THEN MASKED ELSE a + b
MSub(a, b) == IF a = MASKED \/ b = MASKED THEN MASKED ELSE a - b
MHypot(a, b) == IF a = MASKED \/ b = MASKED THEN MASKED ELSE Isqrt(a * a + b * b)

\* lines 212-221: magnitudes from the colours, colour columns deleted
KrisMags(tbl) ==
    SeqMap(tbl, LAMBDA r :
        [time     |-> r.time,
         vmag     |-> r["v"],
         vmag_err |-> r["v_err"],
         bmag     |-> MAdd(r["b-v"], r["v"]),
         bmag_err |-> MHypot(r["b-v_err"], r["v_err"]),
         rmag     |-> MSub(r["v"], r["v-r"]),
         rmag_err |-> MHypot(r["v-r_err"], r["v_err"]),
         imag     |-> MSub(r["v"], r["v-i"]),
         imag_err |-> MHypot(r["v-i_err"], r["v_err"])])

\* data.masked
TableMasked(tbl) ==
    \E k \in 1..Len(tbl) : \E c \in DOMAIN tbl[k] : IsMasked(tbl[k], c)

KrisPositions ==
    /\ loader = "load_krisciunas" /\ pc = "download"
    /\ sne' = NewDict /\ order' = <<>>
    /\ fetched' = Files[loader]
    /\ i' = RangeStart
    /\ pc' = "parse"
    /\ UNCHANGED <<remote, loader, meta, data, wide, sndata, zp, ret, calls,
                   first>>

KrisRead ==
    /\ loader = "load_krisciunas" /\ pc = "parse" /\ i < Len(KrisFiles)
    /\ LET d == KrisMags(ReadKrisFile(KrisFiles[i + 1][1]))
       IN  data' = IF TableMasked(d) THEN filled(d, -200) ELSE d
    /\ pc' = "pivot"
    /\ UNCHANGED <<remote, loader, fetched, meta, wide, sne, order, i, sndata,
                   zp, ret, calls, first>>

KrisPivot ==
    /\ loader = "load_krisciunas" /\ pc = "pivot"
    /\ wide' = data
    /\ data' = DropSentinel(
                   pivot_table(data, "band", KrisColfmts, KrisBands), -200)
    /\ pc' = "table"
    /\ UNCHANGED <<remote, loader, fetched, meta, sne, order, i, sndata, zp,
                   ret, calls, first>>

KrisTable ==
    /\ loader = "load_krisciunas" /\ pc = "table"
    /\ LET name == KrisFiles[i + 1][1]
           snmeta == [name |-> name, dataset |-> "krisciunas",
                      z_helio |-> z_helio[name], ra |-> 0, dec |-> 0]
           zpcol == ConstColumn(Len(data), 58)
           fx == mag_to_flux_cols(Column(data, "mag"), Column(data, "mag_err"),
                                  zpcol)
           cols == [time    |-> SeqMap(Column(data, "time"),
                                       LAMBDA t : t + JD_2451000),
                    band    |-> SeqMap(Column(data, "band"),
                                       LAMBDA b : "bessell" \o b),
                    flux    |-> SeqMap(fx, LAMBDA f : f.flux),
                    fluxerr |-> SeqMap(fx, LAMBDA f : f.fluxerr),
                    zp      |-> zpcol,
                    zpsys   |-> ConstColumn(Len(data), "vega")]
       IN  /\ sndata' = data /\ zp' = zpcol
           /\ sne' = SetItem(sne, name, Table(cols, snmeta))
           /\ order' = Inserted(order, name)
    /\ i' = i + 1
    /\ pc' = IF i + 1 < Len(KrisFiles) THEN "parse" ELSE "loop"
    /\ UNCHANGED <<remote, loader, fetched, meta, data, wide, ret, calls, first>>

(***************************************************************************)
(* load_csp                                                                *)
(***************************************************************************)
CspColfmts == <<(<<"", "mag">>), (<<"e_", "mag">>)>>
CspBands == <<"u", "g", "r", "i", "B", "V", "Y", "J", "H", "K">>
CspOptical == <<"u", "g", "r", "i", "B", "V">>
CspInfrared == <<"Y", "J", "H", "K">>
ir == {"Y", "J", "H"}

\* The columns table4 and table5 share: astropy joins on them.
CspKeyColumns(o) ==
    [SN |-> SNName.csp[o.sn], JD |-> o.jd, Tel |-> TelName.csp[o.sn]] @@
    ("---" :> "") @@ ("f_JD" :> "")

HasCell(o, bands) == \E b \in Range(bands) : b \in DOMAIN CspCells[o.pat]

\* ascii.read(table4): the rows with optical photometry
ReadCspTable4 ==
    SeqMap(SelectSeq(remote.obs, LAMBDA o : HasCell(o, CspOptical)),
           LAMBDA o : MagColumns(o, CspCells, CspColfmts, CspOptical) @@ CspKeyColumns(o))

\* ascii.read(table5): the rows with infrared photometry
ReadCspTable5 ==
    SeqMap(SelectSeq(remote.obs, LAMBDA o : HasCell(o, CspInfrared)),
           LAMBDA o : MagColumns(o, CspCells, CspColfmts, CspInfrared) @@ CspKeyColumns(o))

\* Sort order of the join keys (SN, then JD; Tel follows SN here).
KeyOf(r) == <<CHOOSE n \in SNIds : SNName.csp[n] = r.SN, r.JD>>
KeyLess(a, b) == a[1] < b[1] \/ (a[1] = b[1] /\ a[2] < b[2])

RECURSIVE SortKeys(_)
SortKeys(S) ==
    IF S = {} THEN <<>>
    ELSE LET least == CHOOSE a \in S : \A b \in S \ {a} : KeyLess(a, b)
         IN  <<least>> \o SortKeys(S \ {least})

\* astropy.table.join(left, right, join_type='outer'): rows sorted by key,
\* matching rows merged, unmatched rows padded with masked cells.
OuterJoin(left, right, lcols, rcols) ==
    LET keys == {KeyOf(left[k]) : k \in 1..Len(left)} \cup
                {KeyOf(right[k]) : k \in 1..Len(right)}
        Pad(cols) == [c \in cols |-> MASKED]
        OfKey(key) ==
            LET ls == SelectSeq(left, LAMBDA r : KeyOf(r) = key)
                rs == SelectSeq(right, LAMBDA r : KeyOf(r) = key)
            IN  IF rs = <<>> THEN SeqMap(ls, LAMBDA l : l @@ Pad(rcols))
                ELSE IF ls = <<>> THEN SeqMap(rs, LAMBDA r : r @@ Pad(lcols))
                ELSE Flatten(SeqMap(ls, LAMBDA l : SeqMap(rs, LAMBDA r : l @@ r)))
    IN  Flatten(SeqMap(SortKeys(keys), OfKey))

FirstChar == [SWO |-> "S", DUP |-> "D"]

None == "<None>"

\* lines 282-284: 'csp' + b (+ t[0] for the bands of ir), lower-cased
CspFilter(b, t) ==
    IF b \notin ir THEN "csp" \o Lower[b]
    ELSE "csp" \o Lower[b] \o Lower[FirstChar[t]]

\* 'v' in b, for the filter names CspFilter gives
HasV(f) == f = "cspv"

\* the CSP V band in use on mjd; only the last branch returns
which_V(mjd) ==
    IF mjd < 107496 THEN None
    ELSE IF mjd > 107522 THEN None
    ELSE "cspv" \o "3009"

\* The bandpasses sncosmo knows for CSP, and the offsets of the 'csp'
\* magnitude system for them.
CspOffsets ==
    [cspu |-> 21, cspg |-> 22, cspr |-> 23, cspi |-> 24, cspb |-> 25,
     cspv3009 |-> 26, cspv3014 |-> 27, cspv9844 |-> 28, cspys |-> 29,
     cspyd |-> 30, cspjs |-> 31, cspjd |-> 32, csphs |-> 33, csphd |-> 34,
     cspk |-> 35]

\* sncosmo.get_bandpass(b) raises for a name it does not know
KnownBandpass(b) == b \in DOMAIN CspOffsets

CspParse ==
    /\ loader = "load_csp" /\ pc = "parse"
    /\ meta' = ReadTable1("csp")
    /\ data' = filled(OuterJoin(ReadCspTable4, ReadCspTable5,
                                PivotColumns(CspColfmts, CspOptical),
                                PivotColumns(CspColfmts, CspInfrared)), 0)
    /\ pc' = "pivot"
    /\ UNCHANGED <<remote, loader, fetched, wide, sne, order, i, sndata, zp,
                   ret, calls, first>>

\* lines 279-298: the filter column replaces band and Tel
CspFilters(tbl) ==
    SeqMap(tbl, LAMBDA r :
        LET f == CspFilter(r.band, r.Tel)
        IN  [c \in DOMAIN r \ {"Tel", "band", "---", "f_JD"} |-> r[c]] @@
            ("filter" :> IF HasV(f) THEN which_V(jd_to_mjd(r.JD)) ELSE f))

CspPivot ==
    /\ loader = "load_csp" /\ pc = "pivot"
    /\ wide' = data
    /\ data' = CspFilters(DropSentinel(
                   pivot_table(data, "band", CspColfmts, CspBands), 0))
    /\ sne' = NewDict /\ order' = <<>> /\ i' = RangeStart
    /\ pc' = "loop"
    /\ UNCHANGED <<remote, loader, fetched, meta, sndata, zp, ret, calls, first>>

\* line 311: the zeropoints are looked up for data['filter']
CspZpFilters(tbl, rows) == Column(tbl, "filter")

CspIter ==
    /\ loader = "load_csp" /\ pc = "loop" /\ i < Len(meta)
    /\ LET name == meta[i + 1].SN
           rows == RowsOf(data, name)
           snmeta == [name |-> name, dataset |-> "csp",
                      z_helio |-> meta[i + 1].z,
                      ra |-> RaOf(meta)[i + 1], dec |-> DecOf(meta)[i + 1]]
           fs == CspZpFilters(data, rows)
           zpcol == SeqMap(fs, LAMBDA b : CspOffsets[b])
           mag == Column(rows, "mag")
           fx == mag_to_flux_cols(mag, Column(rows, "e_mag"), zpcol)
           cols == [time    |-> SeqMap(Column(rows, "JD"), jd_to_mjd),
                    band    |-> Column(rows, "filter"),
                    flux    |-> SeqMap(fx, LAMBDA f : f.flux),
                    fluxerr |-> SeqMap(fx, LAMBDA f : f.fluxerr),
                    zp      |-> zpcol,
                    zpsys   |-> ConstColumn(Len(rows), "csp")]
       IN  /\ sndata' = rows
           /\ IF \E k \in 1..Len(fs) : ~KnownBandpass(fs[k])
              THEN /\ Finish(Raises("bandpass")) /\ pc' = "raised"
                   /\ zp' = <<>>
                   /\ UNCHANGED <<sne, order, i>>
              ELSE IF ~Broadcastable(mag, zpcol) \/ ~ColumnsAgree(cols)
              THEN /\ Finish(Raises("shape")) /\ pc' = "raised"
                   /\ zp' = zpcol
                   /\ UNCHANGED <<sne, order, i>>
              ELSE /\ zp' = zpcol
                   /\ sne' = SetItem(sne, name, Table(cols, snmeta))
                   /\ order' = Inserted(order, name)
                   /\ i' = i + 1
                   /\ pc' = "loop"
                   /\ UNCHANGED <<loader, ret, first>>
    /\ UNCHANGED <<remote, fetched, meta, data, wide, calls>>

(***************************************************************************)
(* The caller: loaders are called one after another.                       *)
(***************************************************************************)
LoopLen ==
    [load_kowalski08 |-> Len(meta), load_hamuy96 |-> Len(HamuyNames),
     load_krisciunas |-> Len(KrisFiles), load_csp |-> Len(meta)]

ReturnSne ==
    /\ loader \in Loaders /\ pc = "loop" /\ i = LoopLen[loader]
    /\ Finish(Returns)
    /\ pc' = "done"
    /\ UNCHANGED <<remote, fetched, meta, data, wide, sne, order, i, sndata, zp,
                   calls>>

TypeInit ==
    /\ loader = "none" /\ pc = "idle"
    /\ fetched = <<>> /\ meta = <<>> /\ data = <<>> /\ wide = <<>>
    /\ sne = <<>> /\ order = <<>> /\ i = 0 /\ sndata = <<>> /\ zp = <<>>
    /\ ret = NotCalled
    /\ calls = 0
    /\ first = [L \in Loaders |-> NotCalled]

Init == remote \in Archives /\ TypeInit

Step ==
    \/ Download
    \/ KowParse
    \/ KowPivot
    \/ KowIter
    \/ HamuyParse
    \/ HamuyPivot
    \/ HamuyIter
    \/ KrisPositions
    \/ KrisRead
    \/ KrisPivot
    \/ KrisTable
    \/ CspParse
    \/ CspPivot
    \/ CspIter
    \/ ReturnSne

\* One call of one loader; the remote source may fail it.
Next ==
    \/ \E L \in Loaders : calls = 0 /\ Call(L)
    \/ DownloadFails
    \/ StepFails
    \/ Step

Spec == Init /\ [][Next]_vars

\* Several calls on a source that stays reachable and well-formed.
SessionCats == {<<1>>, <<1, 2>>}

SessionArchives ==
    [cat : SessionCats, obs : UNION {[1..n -> ObsRows] : n \in 0..MaxSessionRows}]

InitSession == remote \in SessionArchives /\ TypeInit

NextSession ==
    \/ \E L \in Loaders : Call(L)
    \/ Step

SpecSession == InitSession /\ [][NextSession]_vars

(***************************************************************************)
(* pivot_table on its own: a wide table with the two band columns B and V  *)
(* (each a magnitude and an error column), any cell of which may be        *)
(* masked, is pivoted once.                                                *)
(***************************************************************************)
TwoBands == <<"B", "V">>

PivotRows ==
    [SN : {"1999aa", "1999ac"}, JD : {4907496, 4907497}, Tel : {"CTIO 0.9m"},
     Bmag : {MASKED, 36}, e_Bmag : {MASKED, 1}, Vmag : {MASKED, 35},
     e_Vmag : {1}]

InitPivot ==
    /\ remote = [cat |-> <<>>, obs |-> <<>>]
    /\ loader = "none" /\ pc = "pivot_args"
    /\ wide \in UNION {[1..n -> PivotRows] : n \in 0..MaxRows}
    /\ fetched = <<>> /\ meta = <<>> /\ data = <<>>
    /\ sne = <<>> /\ order = <<>> /\ i = 0 /\ sndata = <<>> /\ zp = <<>>
    /\ ret = NotCalled
    /\ calls = 0
    /\ first = [L \in Loaders |-> NotCalled]

PivotCall ==
    /\ pc = "pivot_args"
    /\ data' = pivot_table(wide, "band", KowColfmts, TwoBands)
    /\ pc' = "pivoted"
    /\ UNCHANGED <<remote, loader, fetched, meta, wide, sne, order, i, sndata,
                   zp, ret, calls, first>>

NextPivot == PivotCall

SpecPivot == InitPivot /\ [][NextPivot]_vars

(***************************************************************************)
(* Properties.                                                             *)
(***************************************************************************)
Dataset ==
    [load_kowalski08 |-> "kowalski08", load_hamuy96 |-> "hamuy96",
     load_krisciunas |-> "krisciunas", load_csp |-> "csp"]

Sentinel ==
    [load_kowalski08 |-> 0, load_hamuy96 |-> 0, load_krisciunas |-> -200,
     load_csp |-> 0]

\* The tables of the mapping of the running (or last) call.
Names == DOMAIN sne
RowsAt(name) == sne[name].rows
Idx(seq) == 1..Len(seq)

\* An iteration of this call has built its columns.
Iterated == pc \in {"loop", "parse", "pivot", "table", "done", "raised"} /\ i > 0

\* The bands of a source row whose magnitude is present, per layout.
PresentBands(L, pat) ==
    IF L = "load_krisciunas"
    THEN (IF "v" \in DOMAIN KrisCells[pat] THEN {"v"} ELSE {}) \cup
         (IF {"v", "b-v"} \subseteq DOMAIN KrisCells[pat] THEN {"b"} ELSE {})
    ELSE IF L = "load_csp" THEN DOMAIN CspCells[pat]
    ELSE DOMAIN Cells[pat]

\* The band label a loader gives the band b of the source row o.
Label(L, o, b) ==
    CASE L = "load_kowalski08" ->
           (IF o.sn = 1 THEN "CTIO_0.9m" ELSE "FLWO_1.2m") \o "_" \o b
      [] L = "load_hamuy96" -> IF b = "B" THEN "bessellb" ELSE "bessellv"
      [] L = "load_krisciunas" -> IF b = "b" THEN "bessellb" ELSE "bessellv"
      [] L = "load_csp" ->
           IF b = "B" THEN "cspb"
           ELSE IF b = "Y" THEN (IF o.sn = 1 THEN "cspys" ELSE "cspyd")
           ELSE IF o.jd - 4800001 < 107496 THEN "cspv3014"
           ELSE IF o.jd - 4800001 > 107522 THEN "cspv9844"
           ELSE "cspv3009"

\* The source cells (row, band) of a supernova whose magnitude is present.
SourceCells(L, name) ==
    {<<k, b>> \in Idx(remote.obs) \X {"B", "V", "Y", "b", "v"} :
        /\ SNName[Dataset[L]][remote.obs[k].sn] = name
        /\ b \in PresentBands(L, remote.obs[k].pat)}

ZeropointOf(band) == IF band \in DOMAIN CspOffsets THEN CspOffsets[band] ELSE 58

\* C1: in every table the zp of a row is the zeropoint of that row's band,
\* and the zp column built for a supernova has exactly one entry per
\* observation row of that supernova, entry k being the zeropoint of the
\* band of row k (also in load_csp with more than one supernova).
C1_ZpPerRow ==
    /\ \A n \in Names : \A k \in Idx(RowsAt(n)) :
          RowsAt(n)[k].zp = ZeropointOf(RowsAt(n)[k].band)
    /\ (Iterated \/ (pc = "raised" /\ ret.what = "shape")) =>
          /\ Len(zp) = Len(sndata)
          /\ loader = "load_csp" =>
                \A k \in Idx(sndata) : zp[k] = ZeropointOf(sndata[k].filter)
          /\ loader # "load_csp" => \A k \in Idx(zp) : zp[k] = 58

\* C2: every output time is a Modified Julian Date: the Julian Date of a
\* source observation of that supernova minus 2400000.5.
C2_TimeIsMJD ==
    \A n \in Names : \A k \in Idx(RowsAt(n)) :
        \E o \in Range(remote.obs) :
            /\ SNName[Dataset[loader]][o.sn] = n
            /\ RowsAt(n)[k].time = o.jd - 4800001

\* C3: every output row has flux > 0 and fluxerr > 0, whatever cells of the
\* source are absent.
C3_FluxPositive ==
    \A n \in Names : \A k \in Idx(RowsAt(n)) :
        Positive(RowsAt(n)[k].flux) /\ Positive(RowsAt(n)[k].fluxerr)

\* C4: no sentinel magnitude is passed to mag_to_flux (the rows converted in
\* an iteration are sndata), and every output row comes from a source cell
\* of that supernova whose magnitude is present: it carries that cell's
\* band label, and its flux is not the flux of the sentinel.
C4_SentinelDroppedFirst ==
    /\ Iterated => \A k \in Idx(sndata) : sndata[k].mag # Sentinel[loader]
    /\ \A n \in Names : \A k \in Idx(RowsAt(n)) :
          /\ \E c \in SourceCells(loader, n) :
                /\ loader # "load_csp" =>
                      RowsAt(n)[k].band = Label(loader, remote.obs[c[1]], c[2])
                /\ RowsAt(n)[k].time \in
                      {remote.obs[c[1]].jd, remote.obs[c[1]].jd - 4800001}
          /\ RowsAt(n)[k].flux #
                mag_to_flux(Sentinel[loader], 0, RowsAt(n)[k].zp).flux

\* A masked magnitude was filled with the sentinel, and rows of the same
\* table were converted and stored.
C4_Witness ==
    /\ pc = "done" /\ loader \in {"load_kowalski08", "load_krisciunas"}
    /\ \E k \in Idx(wide) : \E c \in DOMAIN wide[k] :
          c \in {"Vmag", "rmag"} /\ wide[k][c] = Sentinel[loader]
    /\ \E n \in Names : Len(RowsAt(n)) > 1

SourceMeta(L, name) ==
    CASE L \in {"load_kowalski08", "load_csp"} ->
           LET n == CHOOSE n \in SNIds : SNName[Dataset[L]][n] = name
           IN  [z_helio |-> Catalogue[n].z,
                ra  |-> 15 * (360000 * Catalogue[n].RAh + 6000 * Catalogue[n].RAm
                              + Catalogue[n].RAs),
                dec |-> (IF Catalogue[n].sign = "-" THEN -1 ELSE 1) *
                        (360000 * Catalogue[n].DEd + 6000 * Catalogue[n].DEm
                         + Catalogue[n].DEs)]
      [] L = "load_hamuy96" ->
           LET e == HamuyMeta[name]
           IN  [z_helio |-> e[3],
                ra  |-> 15 * (360000 * e[1][1] + 6000 * e[1][2] + e[1][3]),
                dec |-> (IF e[2][1] = "-" THEN -1 ELSE 1) *
                        (360000 * e[2][2] + 6000 * e[2][3] + e[2][4])]
      [] L = "load_krisciunas" ->
           [z_helio |-> z_helio[name], ra |-> Positions[name].ra,
            dec |-> Positions[name].dec]

\* C5: the metadata of every table are those of the same supernova in the
\* source, and its name is the key of the table.
C5_MetaMatchesSource ==
    \A n \in Names :
        /\ sne[n].meta.name = n
        /\ sne[n].meta.z_helio = SourceMeta(loader, n).z_helio
        /\ sne[n].meta.ra = SourceMeta(loader, n).ra
        /\ sne[n].meta.dec = SourceMeta(loader, n).dec

PivotOf(row, b) ==
    [SN |-> row.SN, JD |-> row.JD, Tel |-> row.Tel, band |-> b,
     mag   |-> IF b = "B" THEN row.Bmag ELSE row.Vmag,
     e_mag |-> IF b = "B" THEN row.e_Bmag ELSE row.e_Vmag]

\* C6: pivoting a wide table of N rows with two band columns gives at most
\* 2N rows; the output rows correspond one to one to (source row, band)
\* pairs: each carries the band's label, the band's value and error of the
\* source row, and the source row's SN, JD and Tel.
C6_PivotTwoBands ==
    pc = "pivoted" =>
        /\ Len(data) <= 2 * Len(wide)
        /\ \A k \in Idx(data) :
              /\ data[k].band \in {"B", "V"}
              /\ Cardinality({n \in Idx(data) : data[n] = data[k]}) <=
                 Cardinality({c \in Idx(wide) \X {"B", "V"} :
                                 PivotOf(wide[c[1]], c[2]) = data[k]})

\* A pair was dropped for its absent cell, and both bands gave rows.
C6_Witness ==
    /\ pc = "pivoted" /\ Len(wide) = 2 /\ Len(data) = 3
    /\ \E k \in Idx(data) : data[k].band = "B"
    /\ \E k \in Idx(data) : data[k].band = "V" /\ data[k].SN = "1999ac"

\* C7: with an unchanged source, a loader gives its caller what it gave it
\* the first time, whatever was called in between.
C7_SameResult == (Ended /\ calls > 0) => ret = first[loader]

\* A loader returned a table with rows for the second time, another loader
\* having run in between.
C7_Witness ==
    /\ pc = "done" /\ calls = 3 /\ loader = "load_kowalski08"
    /\ first["load_hamuy96"] # NotCalled
    /\ first["load_krisciunas"] = NotCalled /\ first["load_csp"] = NotCalled
    /\ \E n \in DOMAIN ret.sne : Len(ret.sne[n].rows) > 0

\* C8: a call that raised gave its caller the exception and no mapping,
\* however much of the mapping was filled, and asked for no file twice.
C8_RaiseNoPartial ==
    pc = "raised" =>
        /\ ret.kind = "raised"
        /\ "sne" \notin DOMAIN ret
        /\ first[loader] = ret
        /\ \A m, n \in Idx(fetched) : fetched[m] = fetched[n] => m = n

\* The call raised with tables already in its mapping.
C8_Witness ==
    /\ pc = "raised" /\ ret.what \in {"parse", "column"}
    /\ \E n \in Names : Len(RowsAt(n)) > 0

VNames == {"cspv3014", "cspv9844", "cspv3009"}

\* C9: after the filter names are set, every V row carries the name of the
\* V band in use on its date (cspv3014 before MJD 53748, cspv9844 after
\* MJD 53761, cspv3009 between) and every other row its lower-case
\* csp name; no filter is None.
C9_WhichV ==
    (loader = "load_csp" /\ (pc \in {"loop", "done"} \/
                             (pc = "raised" /\ ret.at = "loop"))) =>
        \A k \in Idx(data) :
            /\ data[k].filter # None
            /\ data[k].filter \in VNames \cup {"cspb", "cspys", "cspyd"}
            /\ data[k].filter \in VNames =>
                  data[k].filter =
                    IF data[k].JD - 4800001 < 107496 THEN "cspv3014"
                    ELSE IF data[k].JD - 4800001 > 107522 THEN "cspv9844"
                    ELSE "cspv3009"

ExpectedNames ==
    CASE loader \in {"load_kowalski08", "load_csp"} ->
           {SNName[Dataset[loader]][n] : n \in Range(remote.cat)}
      [] loader = "load_hamuy96" -> Range(HamuyNames)
      [] loader = "load_krisciunas" -> {"1999aa", "1999cl", "1999cp"}

SourceFault == pc = "raised" /\ ret.what \in {"download", "parse", "column"}

\* C10: a call the source does not fail returns a mapping with one table
\* for every supernova of the metadata source, and the table of a name
\* holds the rows of the present cells of that supernova, and only them.
C10_OneTablePerSupernova ==
    ((pc = "done" \/ pc = "raised") /\ ~SourceFault) =>
        /\ ret.kind = "mapping"
        /\ DOMAIN ret.sne = ExpectedNames
        /\ \A n \in DOMAIN ret.sne :
              /\ Len(ret.sne[n].rows) = Cardinality(SourceCells(loader, n))
              /\ \A k \in Idx(ret.sne[n].rows) :
                    \E c \in SourceCells(loader, n) :
                        ret.sne[n].rows[k].band =
                            Label(loader, remote.obs[c[1]], c[2])

====
